---- MODULE Spec2Model ----
\* Model of the triage-ai edge function (src/index.ts): one HTTP handler that
\* dispatches on `action` to handleTriage, handleParseDocument or
\* handleGenerateSynthetic, each of which awaits the AI gateway and possibly
\* storage / the database, and a top-level catch that derives the status
\* code from the error message text.
\*
\* JavaScript strings are sequences of one-character strings, so that
\* String.prototype.includes / endsWith / join and template literals are
\* computed, not assumed.
EXTENDS Integers, Sequences, FiniteSets, TLC

\* ------------------------------------------------------------------
\* Bounds of the model
\* ------------------------------------------------------------------
\* Longest `patients` array the model's tool call returns.
MaxPatients == 2

\* ------------------------------------------------------------------
\* String literals of src/index.ts
\* ------------------------------------------------------------------
\* "Rate limit exceeded"
S_RateLimitExceeded ==
    <<"R","a","t","e"," ","l","i","m","i","t"," ","e","x","c","e","e","d",
      "e","d">>

\* "Payment required"
S_PaymentRequired ==
    <<"P","a","y","m","e","n","t"," ","r","e","q","u","i","r","e","d">>

\* "AI error: "
S_AIError ==
    <<"A","I"," ","e","r","r","o","r",":"," ">>

\* "Rate limit"
S_RateLimit ==
    <<"R","a","t","e"," ","l","i","m","i","t">>

\* "Payment"
S_Payment ==
    <<"P","a","y","m","e","n","t">>

\* "Unknown action: "
S_UnknownAction ==
    <<"U","n","k","n","o","w","n"," ","a","c","t","i","o","n",":"," ">>

\* "undefined"
S_undefined ==
    <<"u","n","d","e","f","i","n","e","d">>

\* "AI did not return structured triage result"
S_NoTriageResult ==
    <<"A","I"," ","d","i","d"," ","n","o","t"," ","r","e","t","u","r","n",
      " ","s","t","r","u","c","t","u","r","e","d"," ","t","r","i","a","g",
      "e"," ","r","e","s","u","l","t">>

\* "Failed to generate synthetic data"
S_NoSynthetic ==
    <<"F","a","i","l","e","d"," ","t","o"," ","g","e","n","e","r","a","t",
      "e"," ","s","y","n","t","h","e","t","i","c"," ","d","a","t","a">>

\* "triage"
S_triage ==
    <<"t","r","i","a","g","e">>

\* "parse-document"
S_parseDocument ==
    <<"p","a","r","s","e","-","d","o","c","u","m","e","n","t">>

\* "generate-synthetic"
S_generateSynthetic ==
    <<"g","e","n","e","r","a","t","e","-","s","y","n","t","h","e","t","i",
      "c">>

\* ".pdf"
S_dotPdf ==
    <<".","p","d","f">>

\* "Bearer "
S_Bearer ==
    <<"B","e","a","r","e","r"," ">>

\* "- Age: "
S_Age ==
    <<"-"," ","A","g","e",":"," ">>

\* "- Gender: "
S_Gender ==
    <<"-"," ","G","e","n","d","e","r",":"," ">>

\* "- Symptoms: "
S_Symptoms ==
    <<"-"," ","S","y","m","p","t","o","m","s",":"," ">>

\* "- Additional symptoms: "
S_AdditionalSymptoms ==
    <<"-"," ","A","d","d","i","t","i","o","n","a","l"," ","s","y","m","p",
      "t","o","m","s",":"," ">>

\* "- Blood Pressure: "
S_BloodPressure ==
    <<"-"," ","B","l","o","o","d"," ","P","r","e","s","s","u","r","e",":",
      " ">>

\* "- Heart Rate: "
S_HeartRate ==
    <<"-"," ","H","e","a","r","t"," ","R","a","t","e",":"," ">>

\* " bpm"
S_bpm ==
    <<" ","b","p","m">>

\* "- Temperature: "
S_Temperature ==
    <<"-"," ","T","e","m","p","e","r","a","t","u","r","e",":"," ">>

\* "- Pre-existing Conditions: "
S_PreExisting ==
    <<"-"," ","P","r","e","-","e","x","i","s","t","i","n","g"," ","C","o",
      "n","d","i","t","i","o","n","s",":"," ">>

\* ", "
S_CommaSpace ==
    <<","," ">>

\* "You are a medical triage AI. Analyze the following patient data and classify their risk level, recommend a department, and explain your reasoning."
S_Preamble ==
    <<"Y","o","u"," ","a","r","e"," ","a"," ","m","e","d","i","c","a","l",
      " ","t","r","i","a","g","e"," ","A","I","."," ","A","n","a","l","y",
      "z","e"," ","t","h","e"," ","f","o","l","l","o","w","i","n","g"," ",
      "p","a","t","i","e","n","t"," ","d","a","t","a"," ","a","n","d"," ",
      "c","l","a","s","s","i","f","y"," ","t","h","e","i","r"," ","r","i",
      "s","k"," ","l","e","v","e","l",","," ","r","e","c","o","m","m","e",
      "n","d"," ","a"," ","d","e","p","a","r","t","m","e","n","t",","," ",
      "a","n","d"," ","e","x","p","l","a","i","n"," ","y","o","u","r"," ",
      "r","e","a","s","o","n","i","n","g",".">>

\* "Patient Data:"
S_PatientData ==
    <<"P","a","t","i","e","n","t"," ","D","a","t","a",":">>

\* "Provide your analysis using the triage_result function."
S_Provide ==
    <<"P","r","o","v","i","d","e"," ","y","o","u","r"," ","a","n","a","l",
      "y","s","i","s"," ","u","s","i","n","g"," ","t","h","e"," ","t","r",
      "i","a","g","e","_","r","e","s","u","l","t"," ","f","u","n","c","t",
      "i","o","n",".">>

\* "application/pdf"
S_applicationPdf ==
    <<"a","p","p","l","i","c","a","t","i","o","n","/","p","d","f">>

\* "image/jpeg"
S_imageJpeg ==
    <<"i","m","a","g","e","/","j","p","e","g">>

\* the two characters rendered after the temperature, then "F" (line 52)
S_degF ==
    <<"A^","deg","F">>

\* ------------------------------------------------------------------
\* JavaScript values: undefined, null, numbers, strings, arrays of strings
\* ------------------------------------------------------------------
Undef == [t |-> "undefined", n |-> 0, s |-> <<>>, a |-> <<>>]

Null == [t |-> "null", n |-> 0, s |-> <<>>, a |-> <<>>]

Num(x) == [t |-> "num", n |-> x, s |-> <<>>, a |-> <<>>]

Str(x) == [t |-> "str", n |-> 0, s |-> x, a |-> <<>>]

Arr(x) == [t |-> "arr", n |-> 0, s |-> <<>>, a |-> x]

\* ToBoolean: undefined, null, 0 and "" are falsy; every array is truthy.
Truthy(v) ==
    CASE v.t = "undefined" -> FALSE
      [] v.t = "null" -> FALSE
      [] v.t = "num" -> v.n # 0
      [] v.t = "str" -> v.s # <<>>
      [] v.t = "arr" -> TRUE

\* a || b
JsOr(a, b) == IF Truthy(a) THEN a ELSE b

Digit(d) == <<"0","1","2","3","4","5","6","7","8","9">>[d + 1]

\* Number.prototype.toString for the naturals
RECURSIVE NumToStr(_)
NumToStr(x) == IF x < 10 THEN <<Digit(x)>> ELSE NumToStr(x \div 10) \o <<Digit(x % 10)>>

\* Array.prototype.join
RECURSIVE Join(_, _)
Join(arr, sep) ==
    IF arr = <<>> THEN <<>>
    ELSE IF Len(arr) = 1 THEN arr[1]
    ELSE arr[1] \o sep \o Join(Tail(arr), sep)

\* ${v} in a template literal
ToStr(v) ==
    CASE v.t = "undefined" -> S_undefined
      [] v.t = "null" -> <<"n","u","l","l">>
      [] v.t = "num" -> NumToStr(v.n)
      [] v.t = "str" -> v.s
      [] v.t = "arr" -> Join(v.a, <<",">>)

\* String.prototype.includes
Includes(s, needle) ==
    \E i \in 0..(Len(s) - Len(needle)) : SubSeq(s, i + 1, i + Len(needle)) = needle

\* String.prototype.endsWith
EndsWith(s, suffix) ==
    /\ Len(s) >= Len(suffix)
    /\ SubSeq(s, Len(s) - Len(suffix) + 1, Len(s)) = suffix

\* String.prototype.startsWith (used by the properties only)
StartsWith(s, prefix) ==
    /\ Len(s) >= Len(prefix)
    /\ SubSeq(s, 1, Len(prefix)) = prefix

\* ------------------------------------------------------------------
\* Pure parts of the handlers
\* ------------------------------------------------------------------
\* callAI without the 402 case: a 402 becomes the generic upstream error
callAI_ErrorMessage_No402(status) ==
    IF status = 429 THEN S_RateLimitExceeded
    ELSE S_AIError \o NumToStr(status)

\* callAI, lines 34-36: the error thrown for a non-ok gateway status
callAI_ErrorMessage(status) ==
    IF status = 429 THEN S_RateLimitExceeded
    ELSE IF status = 402 THEN S_PaymentRequired
    ELSE S_AIError \o NumToStr(status)

\* serve handler, line 273: status derived from the error message text
StatusFromMessage(msg) ==
    IF Includes(msg, S_RateLimit) THEN 429
    ELSE IF Includes(msg, S_Payment) THEN 402
    ELSE 500

\* the mime type taken from an occurrence of ".pdf" anywhere in the path
MimeType_Includes(filePath) ==
    IF Includes(filePath, S_dotPdf) THEN S_applicationPdf ELSE S_imageJpeg

\* handleParseDocument, line 115
MimeType(filePath) ==
    IF EndsWith(filePath, S_dotPdf) THEN S_applicationPdf ELSE S_imageJpeg

\* handleTriage, lines 43-55: the prompt, one element per line of the template
TriagePrompt(patient) ==
    << S_Preamble,
       <<>>,
       S_PatientData,
       S_Age \o ToStr(patient.age),
       S_Gender \o ToStr(patient.gender),
       S_Symptoms \o Join(patient.symptoms.a, S_CommaSpace),
       IF Truthy(patient.symptoms_text)
          THEN S_AdditionalSymptoms \o ToStr(patient.symptoms_text) ELSE <<>>,
       IF Truthy(patient.blood_pressure)
          THEN S_BloodPressure \o ToStr(patient.blood_pressure) ELSE <<>>,
       IF Truthy(patient.heart_rate)
          THEN S_HeartRate \o ToStr(patient.heart_rate) \o S_bpm ELSE <<>>,
       IF Truthy(patient.temperature)
          THEN S_Temperature \o ToStr(patient.temperature) \o S_degF ELSE <<>>,
       IF patient.pre_existing_conditions.t = "arr"
             /\ Len(patient.pre_existing_conditions.a) # 0
          THEN S_PreExisting \o Join(patient.pre_existing_conditions.a, S_CommaSpace)
          ELSE <<>>,
       <<>>,
       S_Provide >>

\* the row built without the `|| null` / `|| []` defaults
RowOfPatient_NoDefaults(p) ==
    [ age |-> p.age,
      gender |-> p.gender,
      symptoms |-> p.symptoms,
      blood_pressure |-> p.blood_pressure,
      heart_rate |-> p.heart_rate,
      temperature |-> p.temperature,
      pre_existing_conditions |-> p.pre_existing_conditions,
      risk_level |-> p.risk_level,
      confidence_score |-> p.confidence_score,
      recommended_department |-> p.recommended_department,
      contributing_factors |-> p.contributing_factors,
      ai_explanation |-> p.ai_explanation ]

\* handleGenerateSynthetic, lines 225-238: the row inserted for patient p
RowOfPatient(p) ==
    [ age |-> p.age,
      gender |-> p.gender,
      symptoms |-> p.symptoms,
      blood_pressure |-> JsOr(p.blood_pressure, Null),
      heart_rate |-> JsOr(p.heart_rate, Null),
      temperature |-> JsOr(p.temperature, Null),
      pre_existing_conditions |-> JsOr(p.pre_existing_conditions, Arr(<<>>)),
      risk_level |-> p.risk_level,
      confidence_score |-> p.confidence_score,
      recommended_department |-> p.recommended_department,
      contributing_factors |-> p.contributing_factors,
      ai_explanation |-> p.ai_explanation ]

\* handleGenerateSynthetic, line 225: patients.map(...)
RowsOfPatients(patients) == [i \in 1..Len(patients) |-> RowOfPatient(patients[i])]

\* ------------------------------------------------------------------
\* Inputs
\* ------------------------------------------------------------------
\* A secret is either set or Deno.env.get returns undefined (lines 10-12).
SecretValues == {Undef, Str(<<"k">>)}

Environments ==
    [LOVABLE_API_KEY : SecretValues,
     SUPABASE_URL : SecretValues,
     SUPABASE_SERVICE_ROLE_KEY : SecretValues]

\* Patient records of the triage action (spec section 3): the optional fields
\* are absent, present with a falsy value, or present with a truthy value.
TriagePatients ==
    [age : {Num(30)},
     gender : {Str(<<"F">>)},
     symptoms : {Arr(<< <<"f","e","v","e","r">>, <<"c","o","u","g","h">> >>)},
     symptoms_text : {Undef, Str(<<>>), Str(<<"d","i","z","z","y">>)},
     blood_pressure : {Undef, Str(<<>>), Str(<<"1","2","0","/","8","0">>)},
     heart_rate : {Undef, Num(0), Num(72)},
     temperature : {Undef, Num(0), Num(98)},
     pre_existing_conditions :
        {Undef, Arr(<<>>), Arr(<< <<"a","s","t","h","m","a">>, <<"f","l","u">> >>)}]

NoPatient ==
    [age |-> Undef, gender |-> Undef, symptoms |-> Undef, symptoms_text |-> Undef,
     blood_pressure |-> Undef, heart_rate |-> Undef, temperature |-> Undef,
     pre_existing_conditions |-> Undef]

\* File paths of the parse-document action
FilePaths ==
    { Str(<<"a",".","p","d","f">>),
      Str(<<".","p","d","f">>),
      Str(<<"p","d","f">>),
      Str(<<"a",".","P","D","F">>),
      Str(<<"a",".","p","d","f",".","j","p","g">>),
      Str(<<"a",".","p","n","g">>),
      Str(<<>>),
      Undef }

\* Values of the `action` field: the three known ones, a missing one and
\* arbitrary other strings.
ActionValues ==
    { Str(S_triage), Str(S_parseDocument), Str(S_generateSynthetic),
      Undef,
      Str(<<"T","r","i","a","g","e">>),
      Str(<<"x">>),
      Str(S_RateLimit),
      Str(S_Payment) }

KnownActions == {Str(S_triage), Str(S_parseDocument), Str(S_generateSynthetic)}

Request(method, bodyOk, action, hasPatient, patient, filePath) ==
    [method |-> method, bodyOk |-> bodyOk, action |-> action,
     hasPatient |-> hasPatient, patient |-> patient, filePath |-> filePath]

NoRequest == Request("", FALSE, Undef, FALSE, NoPatient, Undef)

\* The requests the service can receive; fields a handler never reads are
\* left undefined.
Requests ==
    {Request("OPTIONS", FALSE, Undef, FALSE, NoPatient, Undef)}
    \cup {Request("POST", FALSE, Undef, FALSE, NoPatient, Undef)}
    \cup {Request("POST", TRUE, Str(S_triage), TRUE, p, Undef) : p \in TriagePatients}
    \cup {Request("POST", TRUE, Str(S_triage), FALSE, NoPatient, Undef)}
    \cup {Request("POST", TRUE, Str(S_parseDocument), FALSE, NoPatient, f) : f \in FilePaths}
    \cup {Request("POST", TRUE, a, FALSE, NoPatient, Undef) :
             a \in ActionValues \ {Str(S_triage), Str(S_parseDocument)}}

\* Patients the model may return from the synthetic_patients tool call: the
\* optional fields all present, all absent, present but falsy, and mixed.
SynthPatient(age, bp, hr, temp, cond) ==
    [age |-> Num(age), gender |-> Str(<<"M">>), symptoms |-> Arr(<< <<"c">> >>),
     blood_pressure |-> bp, heart_rate |-> hr, temperature |-> temp,
     pre_existing_conditions |-> cond,
     risk_level |-> Str(<<"L","o","w">>), confidence_score |-> Num(90),
     recommended_department |-> Str(<<"E","R">>),
     contributing_factors |-> Arr(<<>>), ai_explanation |-> Str(<<"e">>)]

SynthPatients ==
    { SynthPatient(41, Str(<<"1","/","2">>), Num(72), Num(98), Arr(<< <<"f","l","u">> >>)),
      SynthPatient(42, Undef, Undef, Undef, Undef),
      SynthPatient(43, Str(<<>>), Num(0), Num(0), Arr(<<>>)),
      SynthPatient(44, Undef, Num(60), Undef, Arr(<< <<"f","l","u">> >>)) }

PatientLists == UNION {[1..n -> SynthPatients] : n \in 0..MaxPatients}

\* What JSON.parse(toolCall.function.arguments) yields: an object with or
\* without a `patients` array.
ToolArguments ==
    {[hasPatients |-> FALSE, patients |-> <<>>]}
    \cup {[hasPatients |-> TRUE, patients |-> ps] : ps \in PatientLists}

NoArguments == [hasPatients |-> FALSE, patients |-> <<>>]

\* Answers of the AI gateway to fetch (lines 22-39): the request fails on the
\* network, or an HTTP response arrives. A 2xx response carries a body that
\* is not JSON, JSON without a tool call, a tool call whose arguments are
\* not JSON, or a tool call with JSON arguments.
GatewayAnswer(arrived, status, body, args) ==
    [arrived |-> arrived, status |-> status, body |-> body, args |-> args]

NoAnswer == GatewayAnswer(FALSE, 0, "", NoArguments)

GatewayAnswers ==
    {GatewayAnswer(TRUE, 0, "network_error", NoArguments)}
    \cup {GatewayAnswer(TRUE, st, "error_text", NoArguments) : st \in {429, 402, 500, 503}}
    \cup {GatewayAnswer(TRUE, st, b, NoArguments) :
             st \in {200, 201}, b \in {"not_json", "no_tool_call", "bad_arguments"}}
    \cup {GatewayAnswer(TRUE, 200, "tool_call", a) : a \in ToolArguments}

\* Error messages a collaborator (storage, database) may report.
CollaboratorMessages ==
    { <<"O","b","j","e","c","t"," ","n","o","t"," ","f","o","u","n","d">>,
      <<"d","u","p","l","i","c","a","t","e"," ","k","e","y">>,
      S_RateLimit \o <<" ","h","i","t">>,
      S_Payment \o <<" ","d","u","e">> }

\* Result of storage.download / from().insert: error is null or an error
\* with a message; `big` says the downloaded file has more bytes than the
\* engine accepts as arguments of one call (line 114).
CollaboratorAnswer(arrived, failed, message, big) ==
    [arrived |-> arrived, failed |-> failed, message |-> message, big |-> big]

NoCollaboratorAnswer == CollaboratorAnswer(FALSE, FALSE, <<>>, FALSE)

StorageAnswers ==
    {CollaboratorAnswer(TRUE, FALSE, <<>>, b) : b \in BOOLEAN}
    \cup {CollaboratorAnswer(TRUE, TRUE, m, FALSE) : m \in CollaboratorMessages}

DatabaseAnswers ==
    {CollaboratorAnswer(TRUE, FALSE, <<>>, FALSE)}
    \cup {CollaboratorAnswer(TRUE, TRUE, m, FALSE) : m \in CollaboratorMessages}

\* Messages of the errors the runtime itself raises.
S_SyntaxError ==
    <<"S","y","n","t","a","x","E","r","r","o","r">>

S_TypeError ==
    <<"T","y","p","e","E","r","r","o","r">>

S_RangeError ==
    <<"R","a","n","g","e","E","r","r","o","r">>

S_ClientError ==
    <<"s","u","p","a","b","a","s","e","U","r","l"," ","i","s"," ","r","e","q","u","i","r","e","d",".">>

\* ------------------------------------------------------------------
\* State
\* ------------------------------------------------------------------
VARIABLES
    pc,        \* position of the process / of the invocation being served
    env,       \* the three secrets read at module load (lines 10-12)
    req,       \* the request being served
    net,       \* outbound network calls of this invocation: start/end events
    inflight,  \* outbound calls started and not yet answered
    aiReq,     \* the request sent to the AI gateway
    aiResp,    \* the gateway's answer
    dlResp,    \* the answer of storage.download
    dbResp,    \* the answer of from("patients").insert
    inserts,   \* the bulk inserts issued, each a sequence of rows
    resp       \* the HTTP response of this invocation

vars == <<pc, env, req, net, inflight, aiReq, aiResp, dlResp, dbResp, inserts, resp>>

AIRequest(sent, kind, auth, lines, mime) ==
    [sent |-> sent, kind |-> kind, auth |-> auth, lines |-> lines, mime |-> mime]

NoAIRequest == AIRequest(FALSE, "", <<>>, <<>>, <<>>)

\* Response bodies: null (OPTIONS), {error}, or a handler's result.
Result(shape, args, parsedNull, count) ==
    [shape |-> shape, args |-> args, parsedNull |-> parsedNull, count |-> count]

NoResult == Result("", NoArguments, FALSE, 0)

Response(sent, status, kind, error, result) ==
    [sent |-> sent, status |-> status, kind |-> kind, error |-> error, result |-> result]

NoResponse == Response(FALSE, 0, "", <<>>, NoResult)

Init ==
    /\ pc = "boot"
    /\ env \in Environments
    /\ req = NoRequest
    /\ net = <<>>
    /\ inflight = {}
    /\ aiReq = NoAIRequest
    /\ aiResp = NoAnswer
    /\ dlResp = NoCollaboratorAnswer
    /\ dbResp = NoCollaboratorAnswer
    /\ inserts = <<>>
    /\ resp = NoResponse

\* ------------------------------------------------------------------
\* Helpers of the actions
\* ------------------------------------------------------------------
Event(target, ev) == [target |-> target, ev |-> ev]

\* serve handler, lines 271-278: the catch block
ErrorResponse(msg) == Response(TRUE, StatusFromMessage(msg), "error", msg, NoResult)

\* serve handler, lines 268-270
SuccessResponse(result) == Response(TRUE, 200, "json", <<>>, result)

\* callAI, lines 22-29: the request as sent
callAI_Request(kind, lines, mime) ==
    AIRequest(TRUE, kind, S_Bearer \o ToStr(env.LOVABLE_API_KEY), lines, mime)

\* callAI, lines 22-39: whether the call throws for the gateway's answer
\* (fetch rejects, the status is not 2xx, or the body is not JSON)
callAI_Threw(ans) ==
    \/ ans.body = "network_error"
    \/ ~(ans.status >= 200 /\ ans.status <= 299)
    \/ ans.body = "not_json"

\* callAI: the message of the error it throws
callAI_Message(ans) ==
    IF ans.body = "network_error" THEN S_TypeError
    ELSE IF ~(ans.status >= 200 /\ ans.status <= 299) THEN callAI_ErrorMessage(ans.status)
    ELSE S_SyntaxError

\* createClient (lines 104, 162) is library code: with a missing URL or key
\* it may reject its arguments.
CreateClientOutcomes ==
    IF env.SUPABASE_URL = Undef \/ env.SUPABASE_SERVICE_ROLE_KEY = Undef
    THEN {"throws", "client"}
    ELSE {"client"}

\* handleTriage, lines 91-100, after callAI settled
handleTriage_Finish(ans) ==
    IF callAI_Threw(ans) THEN ErrorResponse(callAI_Message(ans))
    ELSE IF ans.body = "no_tool_call" THEN ErrorResponse(S_NoTriageResult)
    ELSE IF ans.body = "bad_arguments" THEN ErrorResponse(S_SyntaxError)
    ELSE SuccessResponse(Result("args", ans.args, FALSE, 0))

\* handleParseDocument treating a missing tool call as fatal, as handleTriage does
handleParseDocument_Finish_Strict(ans) ==
    IF callAI_Threw(ans) THEN ErrorResponse(callAI_Message(ans))
    ELSE IF ans.body = "no_tool_call" THEN ErrorResponse(S_NoTriageResult)
    ELSE IF ans.body = "bad_arguments" THEN ErrorResponse(S_SyntaxError)
    ELSE SuccessResponse(Result("parsed", ans.args, FALSE, 0))

\* handleParseDocument, lines 141-158, after callAI settled
handleParseDocument_Finish(ans) ==
    IF callAI_Threw(ans) THEN ErrorResponse(callAI_Message(ans))
    ELSE IF ans.body = "no_tool_call" THEN SuccessResponse(Result("parsed", NoArguments, TRUE, 0))
    ELSE IF ans.body = "bad_arguments" THEN ErrorResponse(S_SyntaxError)
    ELSE SuccessResponse(Result("parsed", ans.args, FALSE, 0))

\* handleParseDocument without the check of downloadError
handleParseDocument_DownloadThrows_Never(dl) == FALSE

\* handleParseDocument, line 110: if (downloadError) throw downloadError
handleParseDocument_DownloadThrows(dl) == dl.failed

\* handleGenerateSynthetic, lines 213-225: whether it throws before the
\* insert (callAI throws, no tool call, JSON.parse throws, or `patients` is
\* undefined and patients.map throws)
handleGenerateSynthetic_Throws(ans) ==
    \/ callAI_Threw(ans)
    \/ ans.body = "no_tool_call"
    \/ ans.body = "bad_arguments"
    \/ ~ans.args.hasPatients

\* handleGenerateSynthetic: the message of the error thrown before the insert
handleGenerateSynthetic_Message(ans) ==
    IF callAI_Threw(ans) THEN callAI_Message(ans)
    ELSE IF ans.body = "no_tool_call" THEN S_NoSynthetic
    ELSE IF ans.body = "bad_arguments" THEN S_SyntaxError
    ELSE S_TypeError

\* ------------------------------------------------------------------
\* Actions
\* ------------------------------------------------------------------
\* Module load, lines 10-12 and 245: the secrets are read with a non-null
\* assertion, which is erased at run time, and serve() is called.
Serve ==
    /\ pc = "boot"
    /\ pc' = "idle"
    /\ UNCHANGED <<env, req, net, inflight, aiReq, aiResp, dlResp, dbResp, inserts, resp>>

\* A request arrives at the idle server.
Receive ==
    /\ pc = "idle"
    /\ \E r \in Requests : req' = r
    /\ pc' = "handler"
    /\ UNCHANGED <<env, net, inflight, aiReq, aiResp, dlResp, dbResp, inserts, resp>>

\* The response has been returned: the invocation ends and nothing of it is
\* kept (the handlers share no state).
Return ==
    /\ pc = "done"
    /\ pc' = "idle"
    /\ req' = NoRequest
    /\ net' = <<>>
    /\ inflight' = {}
    /\ aiReq' = NoAIRequest
    /\ aiResp' = NoAnswer
    /\ dlResp' = NoCollaboratorAnswer
    /\ dbResp' = NoCollaboratorAnswer
    /\ inserts' = <<>>
    /\ resp' = NoResponse
    /\ UNCHANGED env

\* lines 246-248
ServeOptions ==
    /\ pc = "handler"
    /\ req.method = "OPTIONS"
    /\ resp' = Response(TRUE, 200, "empty", <<>>, NoResult)
    /\ pc' = "done"
    /\ UNCHANGED <<env, req, net, inflight, aiReq, aiResp, dlResp, dbResp, inserts>>

\* line 251: req.json() rejects
ServeBadBody ==
    /\ pc = "handler"
    /\ req.method # "OPTIONS"
    /\ ~req.bodyOk
    /\ resp' = ErrorResponse(S_SyntaxError)
    /\ pc' = "done"
    /\ UNCHANGED <<env, req, net, inflight, aiReq, aiResp, dlResp, dbResp, inserts>>

\* lines 264-265: the default case of the switch
ServeUnknownAction ==
    /\ pc = "handler"
    /\ req.method # "OPTIONS"
    /\ req.bodyOk
    /\ req.action \notin KnownActions
    /\ resp' = ErrorResponse(S_UnknownAction \o ToStr(req.action))
    /\ pc' = "done"
    /\ UNCHANGED <<env, req, net, inflight, aiReq, aiResp, dlResp, dbResp, inserts>>

\* lines 255-256, 42-95: handleTriage up to the await of callAI
handleTriage_Start ==
    /\ pc = "handler"
    /\ req.method # "OPTIONS"
    /\ req.bodyOk
    /\ req.action = Str(S_triage)
    /\ IF ~req.hasPatient
       THEN /\ resp' = ErrorResponse(S_TypeError)
            /\ pc' = "done"
            /\ UNCHANGED <<net, inflight, aiReq>>
       ELSE /\ aiReq' = callAI_Request("triage", TriagePrompt(req.patient), <<>>)
            /\ net' = Append(net, Event("ai", "start"))
            /\ inflight' = inflight \cup {"ai"}
            /\ pc' = "triage_ai"
            /\ UNCHANGED resp
    /\ UNCHANGED <<env, req, aiResp, dlResp, dbResp, inserts>>

\* lines 258-259, 103-108: handleParseDocument up to the await of download
handleParseDocument_Start ==
    /\ pc = "handler"
    /\ req.method # "OPTIONS"
    /\ req.bodyOk
    /\ req.action = Str(S_parseDocument)
    /\ \E c \in CreateClientOutcomes :
          IF c = "throws"
          THEN /\ resp' = ErrorResponse(S_ClientError)
               /\ pc' = "done"
               /\ UNCHANGED <<net, inflight>>
          ELSE /\ net' = Append(net, Event("storage", "start"))
               /\ inflight' = inflight \cup {"storage"}
               /\ pc' = "parse_download"
               /\ UNCHANGED resp
    /\ UNCHANGED <<env, req, aiReq, aiResp, dlResp, dbResp, inserts>>

\* lines 261-262, 161-217: handleGenerateSynthetic up to the await of callAI
handleGenerateSynthetic_Start ==
    /\ pc = "handler"
    /\ req.method # "OPTIONS"
    /\ req.bodyOk
    /\ req.action = Str(S_generateSynthetic)
    /\ \E c \in CreateClientOutcomes :
          IF c = "throws"
          THEN /\ resp' = ErrorResponse(S_ClientError)
               /\ pc' = "done"
               /\ UNCHANGED <<net, inflight, aiReq>>
          ELSE /\ aiReq' = callAI_Request("synthetic", <<>>, <<>>)
               /\ net' = Append(net, Event("ai", "start"))
               /\ inflight' = inflight \cup {"ai"}
               /\ pc' = "synth_ai"
               /\ UNCHANGED resp
    /\ UNCHANGED <<env, req, aiResp, dlResp, dbResp, inserts>>

\* The AI gateway answers the pending fetch.
GatewayResponds ==
    /\ "ai" \in inflight
    /\ \E ans \in GatewayAnswers : aiResp' = ans
    /\ inflight' = inflight \ {"ai"}
    /\ net' = Append(net, Event("ai", "end"))
    /\ UNCHANGED <<pc, env, req, aiReq, dlResp, dbResp, inserts, resp>>

\* Storage answers the pending download.
StorageResponds ==
    /\ "storage" \in inflight
    /\ \E ans \in StorageAnswers : dlResp' = ans
    /\ inflight' = inflight \ {"storage"}
    /\ net' = Append(net, Event("storage", "end"))
    /\ UNCHANGED <<pc, env, req, aiReq, aiResp, dbResp, inserts, resp>>

\* The database answers the pending insert.
DatabaseResponds ==
    /\ "database" \in inflight
    /\ \E ans \in DatabaseAnswers : dbResp' = ans
    /\ inflight' = inflight \ {"database"}
    /\ net' = Append(net, Event("database", "end"))
    /\ UNCHANGED <<pc, env, req, aiReq, aiResp, dlResp, inserts, resp>>

\* handleTriage retrying the gateway once after a 429
handleTriage_Resume_Retry ==
    /\ pc = "triage_ai"
    /\ aiResp.arrived
    /\ IF aiResp.status = 429 /\ Len(net) = 2
       THEN /\ net' = Append(net, Event("ai", "start"))
            /\ inflight' = inflight \cup {"ai"}
            /\ aiResp' = NoAnswer
            /\ UNCHANGED <<pc, resp>>
       ELSE /\ resp' = handleTriage_Finish(aiResp)
            /\ pc' = "done"
            /\ UNCHANGED <<net, inflight, aiResp>>
    /\ UNCHANGED <<env, req, aiReq, dlResp, dbResp, inserts>>

\* lines 96-100 and the serve handler's response
handleTriage_Resume ==
    /\ pc = "triage_ai"
    /\ aiResp.arrived
    /\ resp' = handleTriage_Finish(aiResp)
    /\ pc' = "done"
    /\ UNCHANGED <<env, req, net, inflight, aiReq, aiResp, dlResp, dbResp, inserts>>

\* lines 110-153: handleParseDocument between the download and callAI
handleParseDocument_AfterDownload ==
    /\ pc = "parse_download"
    /\ dlResp.arrived
    /\ IF handleParseDocument_DownloadThrows(dlResp)
       THEN /\ resp' = ErrorResponse(dlResp.message)
            /\ pc' = "done"
            /\ UNCHANGED <<net, inflight, aiReq>>
       ELSE IF dlResp.big
       THEN /\ resp' = ErrorResponse(S_RangeError)
            /\ pc' = "done"
            /\ UNCHANGED <<net, inflight, aiReq>>
       ELSE IF req.filePath.t # "str"
       THEN /\ resp' = ErrorResponse(S_TypeError)
            /\ pc' = "done"
            /\ UNCHANGED <<net, inflight, aiReq>>
       ELSE /\ aiReq' = callAI_Request("parse", <<>>, MimeType(req.filePath.s))
            /\ net' = Append(net, Event("ai", "start"))
            /\ inflight' = inflight \cup {"ai"}
            /\ pc' = "parse_ai"
            /\ UNCHANGED resp
    /\ UNCHANGED <<env, req, aiResp, dlResp, dbResp, inserts>>

\* lines 155-158 and the serve handler's response
handleParseDocument_Resume ==
    /\ pc = "parse_ai"
    /\ aiResp.arrived
    /\ resp' = handleParseDocument_Finish(aiResp)
    /\ pc' = "done"
    /\ UNCHANGED <<env, req, net, inflight, aiReq, aiResp, dlResp, dbResp, inserts>>

\* lines 219-239: handleGenerateSynthetic between callAI and the insert
handleGenerateSynthetic_AfterAI ==
    /\ pc = "synth_ai"
    /\ aiResp.arrived
    /\ IF handleGenerateSynthetic_Throws(aiResp)
       THEN /\ resp' = ErrorResponse(handleGenerateSynthetic_Message(aiResp))
            /\ pc' = "done"
            /\ UNCHANGED <<net, inflight, inserts>>
       ELSE /\ inserts' = Append(inserts, RowsOfPatients(aiResp.args.patients))
            /\ net' = Append(net, Event("database", "start"))
            /\ inflight' = inflight \cup {"database"}
            /\ pc' = "synth_insert"
            /\ UNCHANGED resp
    /\ UNCHANGED <<env, req, aiReq, aiResp, dlResp, dbResp>>

\* lines 241-242 and the serve handler's response
handleGenerateSynthetic_Resume ==
    /\ pc = "synth_insert"
    /\ dbResp.arrived
    /\ resp' = IF dbResp.failed
               THEN ErrorResponse(dbResp.message)
               ELSE SuccessResponse(Result("synthetic", NoArguments, FALSE,
                                           Len(aiResp.args.patients)))
    /\ pc' = "done"
    /\ UNCHANGED <<env, req, net, inflight, aiReq, aiResp, dlResp, dbResp, inserts>>

Next ==
    \/ Serve
    \/ Receive
    \/ Return
    \/ ServeOptions
    \/ ServeBadBody
    \/ ServeUnknownAction
    \/ handleTriage_Start
    \/ handleParseDocument_Start
    \/ handleGenerateSynthetic_Start
    \/ GatewayResponds
    \/ StorageResponds
    \/ DatabaseResponds
    \/ handleTriage_Resume
    \/ handleParseDocument_AfterDownload
    \/ handleParseDocument_Resume
    \/ handleGenerateSynthetic_AfterAI
    \/ handleGenerateSynthetic_Resume

Spec == Init /\ [][Next]_vars

\* ------------------------------------------------------------------
\* Properties
\* ------------------------------------------------------------------
IsTriage == req.action = Str(S_triage)

IsParseDocument == req.action = Str(S_parseDocument)

IsGenerateSynthetic == req.action = Str(S_generateSynthetic)

Responded == pc = "done" /\ resp.sent

Starts(target) == Cardinality({i \in DOMAIN net : net[i] = Event(target, "start")})

GatewaySucceeded == aiResp.arrived /\ aiResp.status >= 200 /\ aiResp.status <= 299

C2_MissingToolCall ==
    (GatewaySucceeded /\ aiResp.body = "no_tool_call")
    => /\ inserts = <<>>
       /\ Starts("database") = 0
       /\ Responded =>
            /\ (IsTriage \/ IsGenerateSynthetic) =>
                  resp.status = 500 /\ resp.kind = "error"
            /\ IsParseDocument =>
                  /\ resp.status = 200
                  /\ resp.kind = "json"
                  /\ resp.result = Result("parsed", NoArguments, TRUE, 0)

C2_Witness ==
    /\ Responded
    /\ IsParseDocument
    /\ GatewaySucceeded
    /\ aiResp.body = "no_tool_call"
    /\ resp.status = 200

\* C3: a request whose action is none of the three known ones is always
\* answered with status 500 and an `error` naming the action, and no call
\* to the gateway, storage or database is made.
C3_UnknownActionIs500 ==
    (Responded /\ req.method = "POST" /\ req.bodyOk /\ req.action \notin KnownActions)
    => /\ resp.status = 500
       /\ resp.kind = "error"
       /\ Includes(resp.error, ToStr(req.action))
       /\ net = <<>>
       /\ inserts = <<>>

\* C4: a failed storage download (parse-document) or a failed bulk insert
\* (generate-synthetic) is answered with status 500 and the collaborator's
\* error message as `error`, whatever the text of the message.
C4_CollaboratorErrorIs500 ==
    (Responded /\ ( (IsParseDocument /\ dlResp.arrived /\ dlResp.failed)
                    \/ (IsGenerateSynthetic /\ dbResp.arrived /\ dbResp.failed) ))
    => /\ resp.status = 500
       /\ resp.kind = "error"
       /\ resp.error = (IF IsParseDocument THEN dlResp.message ELSE dbResp.message)

\* C5: when the tool call returns n patients and the insert succeeds,
\* exactly one bulk insert of n rows was issued, row i made from patient i,
\* the response is {success: true, count: n}, and in every row an absent
\* blood_pressure, heart_rate or temperature is null and an absent
\* pre_existing_conditions is the empty list.
C5_SyntheticInsert ==
    (Responded /\ IsGenerateSynthetic /\ dbResp.arrived /\ ~dbResp.failed)
    => LET ps == aiResp.args.patients IN
       /\ aiResp.args.hasPatients
       /\ Starts("database") = 1
       /\ Len(inserts) = 1
       /\ Len(inserts[1]) = Len(ps)
       /\ resp.status = 200
       /\ resp.result = Result("synthetic", NoArguments, FALSE, Len(ps))
       /\ \A i \in 1..Len(ps) :
             /\ inserts[1][i].age = ps[i].age
             /\ ps[i].blood_pressure = Undef => inserts[1][i].blood_pressure = Null
             /\ ps[i].heart_rate = Undef => inserts[1][i].heart_rate = Null
             /\ ps[i].temperature = Undef => inserts[1][i].temperature = Null
             /\ ps[i].pre_existing_conditions = Undef
                   => inserts[1][i].pre_existing_conditions = Arr(<<>>)

C5_Witness ==
    /\ Responded
    /\ IsGenerateSynthetic
    /\ dbResp.arrived
    /\ ~dbResp.failed
    /\ Len(inserts) = 1
    /\ Len(inserts[1]) = 2
    /\ aiResp.args.patients[1].heart_rate = Undef
    /\ aiResp.args.patients[2].heart_rate # Undef
    /\ resp.result.count = 2

HasLine(lines, label) == \E i \in DOMAIN lines : StartsWith(lines[i], label)

\* C6: the triage prompt contains a line for every optional field present
\* in the patient record and none for an absent one, for every valid value
\* of a present field.
C6_PromptHasPresentFields ==
    (aiReq.sent /\ aiReq.kind = "triage")
    => /\ (req.patient.symptoms_text # Undef) <=> HasLine(aiReq.lines, S_AdditionalSymptoms)
       /\ (req.patient.blood_pressure # Undef) <=> HasLine(aiReq.lines, S_BloodPressure)
       /\ (req.patient.heart_rate # Undef) <=> HasLine(aiReq.lines, S_HeartRate)
       /\ (req.patient.temperature # Undef) <=> HasLine(aiReq.lines, S_Temperature)
       /\ (req.patient.pre_existing_conditions # Undef)
             <=> HasLine(aiReq.lines, S_PreExisting)

\* C7: an invocation makes at most one call to the AI gateway and at most
\* one to storage/database (none for triage), and a call starts only after
\* the previous one has completed.
C7_AtMostTwoSequentialCalls ==
    /\ Starts("ai") <= 1
    /\ Starts("storage") + Starts("database") <= 1
    /\ IsTriage => Starts("storage") + Starts("database") = 0
    /\ Cardinality(inflight) <= 1
    /\ \A i \in DOMAIN net :
          net[i].ev = "start" =>
             (i = Len(net) \/ net[i + 1] = Event(net[i].target, "end"))

C7_Witness ==
    /\ Responded
    /\ IsGenerateSynthetic
    /\ net = <<Event("ai", "start"), Event("ai", "end"),
               Event("database", "start"), Event("database", "end")>>

AnySecretAbsent ==
    \/ env.LOVABLE_API_KEY = Undef
    \/ env.SUPABASE_URL = Undef
    \/ env.SUPABASE_SERVICE_ROLE_KEY = Undef

\* C8: with any of the three secrets absent at process start the process
\* never starts serving: no request is handled and no outbound call is made.
C8_MissingSecretIsFatal ==
    AnySecretAbsent => (pc = "boot" /\ net = <<>> /\ ~aiReq.sent /\ ~resp.sent)

\* C9: the payload parse-document sends to the gateway is tagged
\* application/pdf when the path ends in ".pdf" and image/jpeg otherwise.
C9_MimeFromSuffix ==
    (aiReq.sent /\ aiReq.kind = "parse")
    => LET p == req.filePath.s
           n == Len(p)
           pdf == /\ n >= 4
                  /\ p[n - 3] = "."
                  /\ p[n - 2] = "p"
                  /\ p[n - 1] = "d"
                  /\ p[n] = "f"
       IN /\ req.filePath.t = "str"
          /\ pdf => aiReq.mime = S_applicationPdf
          /\ ~pdf => aiReq.mime = S_imageJpeg

C9_Witness ==
    /\ aiReq.sent
    /\ aiReq.kind = "parse"
    /\ req.filePath = Str(<<"a",".","p","d","f",".","j","p","g">>)
    /\ aiReq.mime = S_imageJpeg

\* C10: the second call is made only after the first succeeded: in
\* parse-document the gateway is called only after a download without
\* error; in generate-synthetic the insert is issued only after a success
\* status, a tool call and arguments that parse as JSON. An invocation whose
\* first call failed made no second call and wrote nothing.
C10_SecondCallAfterFirstSucceeded ==
    /\ (IsParseDocument /\ Starts("ai") > 0) => (dlResp.arrived /\ ~dlResp.failed)
    /\ (Starts("database") > 0 \/ inserts # <<>>)
          => (IsGenerateSynthetic /\ GatewaySucceeded /\ aiResp.body = "tool_call")
    /\ (IsParseDocument /\ dlResp.arrived /\ dlResp.failed)
          => (Len(net) = 2 /\ ~aiReq.sent /\ inserts = <<>>)
    /\ (IsGenerateSynthetic /\ aiResp.arrived /\ aiResp.body # "tool_call")
          => (Len(net) = 2 /\ inserts = <<>>)

C10_Witness ==
    /\ Responded
    /\ IsParseDocument
    /\ dlResp.arrived
    /\ dlResp.failed
    /\ Len(net) = 2
    /\ resp.kind = "error"

====
